---- MODULE Spec2Model ----
(***************************************************************************)
(* Model of the benchmark execution engine of tag-bench:                   *)
(*   runWithConcurrency / runBenchmarkForModel   (benchmark.ts)            *)
(*   chatCompletion / askQuestion                (api.ts)                  *)
(*   scoreQuestion / formatExpectedAnswer        (scorer.ts)               *)
(*   runMultipleModels                           (index.ts)                *)
(*                                                                         *)
(* One step of the model is one turn of the JavaScript event loop: the     *)
(* callback of one I/O or timer event together with every microtask        *)
(* (promise continuation) it schedules, which run to completion before     *)
(* the next event is delivered.                                            *)
(*                                                                         *)
(* Spec runs one question set of a single section file against a remote     *)
(* service that may do anything; SpecDet runs every question set against a *)
(* remote service whose behaviour is a function of (item, index).          *)
(* SpecScore asks one question of every allowed shape and lets the remote  *)
(* service answer with every short text; SpecMalformed runs question sets  *)
(* that violate the data model; SpecBatch runs runMultipleModels, with     *)
(* each runBenchmarkForModel call reduced to how it settles.               *)
(*                                                                         *)
(* Strings are sequences of one-character strings.  Numbers that the code  *)
(* computes by division are exact fractions [n, d]; d = 0 stands for NaN.  *)
(* Wall-clock latencies (latencyMs, totalLatencyMs, timestamp) are not     *)
(* modelled.                                                               *)
(***************************************************************************)
EXTENDS Integers, Sequences, FiniteSets, TLC

\* ------------------------------------------------------------------------
\* Bounds of the model
\* ------------------------------------------------------------------------
MaxSections == 2
MaxQuestions == 2
MaxTasks == 3
MaxLimit == 2
MaxLateItems == 2
MaxResponseLen == 3
MaxModels == 3

\* ------------------------------------------------------------------------
\* Program constants
\* ------------------------------------------------------------------------
DEFAULT_CONCURRENCY == 35

\* ------------------------------------------------------------------------
\* Small helpers
\* ------------------------------------------------------------------------
Min(a, b) == IF a < b THEN a ELSE b

RECURSIVE Gcd(_, _)
Gcd(a, b) == IF b = 0 THEN a ELSE Gcd(b, a % b)

\* ------------------------------------------------------------------------
\* Numbers (IEEE doubles abstracted to exact fractions, NaN kept)
\* ------------------------------------------------------------------------
NaN == [n |-> 0, d |-> 0]

Frac(a, b) ==
  IF b = 0 THEN NaN
  ELSE LET g == Gcd(a, b) IN [n |-> a \div g, d |-> b \div g]

Zero == Frac(0, 1)

One == Frac(1, 1)

IsNaN(x) == x.d = 0

FAdd(x, y) == IF IsNaN(x) \/ IsNaN(y) THEN NaN ELSE Frac(x.n * y.d + y.n * x.d, x.d * y.d)

FMulInt(x, k) == IF IsNaN(x) THEN NaN ELSE Frac(x.n * k, x.d)

FDivInt(x, k) == IF IsNaN(x) THEN NaN ELSE Frac(x.n, x.d * k)

\* ------------------------------------------------------------------------
\* Strings
\* ------------------------------------------------------------------------
NL == "\n"

IsSpace(c) == c \in {" ", NL}

IsDigit(c) == c \in {"0", "1", "2"}

LowerChar(c) ==
  CASE c = "A" -> "a"
    [] c = "B" -> "b"
    [] c = "T" -> "t"
    [] c = "I" -> "i"
    [] c = "M" -> "m"
    [] c = "E" -> "e"
    [] c = "O" -> "o"
    [] c = "U" -> "u"
    [] OTHER -> c

toLowerCase(s) == [k \in 1..Len(s) |-> LowerChar(s[k])]

RECURSIVE trimStart(_)
trimStart(s) == IF s # <<>> /\ IsSpace(Head(s)) THEN trimStart(Tail(s)) ELSE s

RECURSIVE trimEnd(_)
trimEnd(s) ==
  IF s # <<>> /\ IsSpace(s[Len(s)]) THEN trimEnd(SubSeq(s, 1, Len(s) - 1)) ELSE s

trim(s) == trimEnd(trimStart(s))

includes(s, t) ==
  \E k \in 0..(Len(s) - Len(t)) : SubSeq(s, k + 1, k + Len(t)) = t

\* String.prototype.split("\n")
RECURSIVE splitFrom(_, _)
splitFrom(s, cur) ==
  IF s = <<>> THEN <<cur>>
  ELSE IF Head(s) = NL THEN <<cur>> \o splitFrom(Tail(s), <<>>)
  ELSE splitFrom(Tail(s), Append(cur, Head(s)))

split(s) == splitFrom(s, <<>>)

\* Array.prototype.join("\n")
RECURSIVE join(_)
join(xs) ==
  IF xs = <<>> THEN <<>>
  ELSE IF Len(xs) = 1 THEN xs[1]
  ELSE xs[1] \o <<NL>> \o join(Tail(xs))

RECURSIVE skipDigits(_)
skipDigits(s) == IF s # <<>> /\ IsDigit(Head(s)) THEN skipDigits(Tail(s)) ELSE s

\* line.replace(/^[\d]+[.)]\s*/, "")
stripOrdinal(line) ==
  LET rest == skipDigits(line) IN
  IF Len(rest) < Len(line) /\ rest # <<>> /\ Head(rest) \in {".", ")"}
  THEN trimStart(Tail(rest))
  ELSE line

\* line.replace(/^[-*]\s*/, "")
stripBullet(line) ==
  IF line # <<>> /\ Head(line) \in {"-", "*"} THEN trimStart(Tail(line)) ELSE line

RECURSIVE filterNonEmpty(_)
filterNonEmpty(xs) ==
  IF xs = <<>> THEN <<>>
  ELSE IF Len(Head(xs)) > 0 THEN <<Head(xs)>> \o filterNonEmpty(Tail(xs))
  ELSE filterNonEmpty(Tail(xs))

\* ------------------------------------------------------------------------
\* Scoring engine (scorer.ts)
\* ------------------------------------------------------------------------
normalize(s) == trim(toLowerCase(s))

\* what a call evaluates to when it throws instead of returning
Thrown(error) == [thrown |-> error]

\* the value of a function that returns without a return statement, and of a
\* property that is not there
Undefined == [undefined |-> TRUE]

scoreShortAnswer(response, question) ==
  LET normalizedResponse == normalize(response) IN
  IF "acceptedAnswers" \notin DOMAIN question
  THEN Thrown("TypeError")      \* for (... of undefined)
  ELSE
  IF \E k \in 1..Len(question.acceptedAnswers) :
       \/ normalizedResponse = normalize(question.acceptedAnswers[k])
       \/ includes(normalizedResponse, normalize(question.acceptedAnswers[k]))
  THEN [correct |-> TRUE, score |-> One]
  ELSE [correct |-> FALSE, score |-> Zero]

parseResponseItems(response) ==
  LET lines == split(response) IN
  filterNonEmpty([k \in 1..Len(lines) |-> trim(stripBullet(stripOrdinal(lines[k])))])

\* bug variant: a response item matches when it equals any expected item
scoreListAnyPosition(response, question) ==
  LET responseItems == parseResponseItems(response)
      expectedItems == question.expectedItems
      matched == {i \in 1..Min(Len(responseItems), Len(expectedItems)) :
                    \E j \in 1..Len(expectedItems) :
                      normalize(responseItems[i]) = normalize(expectedItems[j])}
      matchCount == Cardinality(matched)
  IN
  IF Len(responseItems) = 0 THEN [correct |-> FALSE, score |-> Zero]
  ELSE [correct |-> matchCount = Len(expectedItems)
                      /\ Len(responseItems) = Len(expectedItems),
        score |-> Frac(matchCount, Len(expectedItems))]

\* bug variant: correct does not compare the lengths
scoreListLenient(response, question) ==
  LET responseItems == parseResponseItems(response)
      expectedItems == question.expectedItems
      matched == {i \in 1..Min(Len(responseItems), Len(expectedItems)) :
                    /\ responseItems[i] # <<>>
                    /\ expectedItems[i] # <<>>
                    /\ normalize(responseItems[i]) = normalize(expectedItems[i])}
      matchCount == Cardinality(matched)
  IN
  IF Len(responseItems) = 0 THEN [correct |-> FALSE, score |-> Zero]
  ELSE [correct |-> matchCount = Len(expectedItems),
        score |-> Frac(matchCount, Len(expectedItems))]

scoreList(response, question) ==
  LET responseItems == parseResponseItems(response)
      hasExpectedItems == "expectedItems" \in DOMAIN question
      expectedItems == IF hasExpectedItems THEN question.expectedItems ELSE <<>>
      matched == {i \in 1..Min(Len(responseItems), Len(expectedItems)) :
                    /\ responseItems[i] # <<>>
                    /\ expectedItems[i] # <<>>
                    /\ normalize(responseItems[i]) = normalize(expectedItems[i])}
      matchCount == Cardinality(matched)
  IN
  IF Len(responseItems) = 0 THEN [correct |-> FALSE, score |-> Zero]
  ELSE IF ~hasExpectedItems
  THEN Thrown("TypeError")      \* undefined.length
  ELSE [correct |-> matchCount = Len(expectedItems)
                      /\ Len(responseItems) = Len(expectedItems),
        score |-> Frac(matchCount, Len(expectedItems))]

\* the switch has no default: any other type falls out of the function
scoreQuestion(response, question) ==
  CASE question.type = "short-answer" -> scoreShortAnswer(response, question)
    [] question.type = "list" -> scoreList(response, question)
    [] OTHER -> Undefined

\* whether formatExpectedAnswer throws: it reads acceptedAnswers[0], or
\* calls expectedItems.join, on a question without that property
formatExpectedAnswerThrows(question) ==
  \/ question.type = "short-answer" /\ "acceptedAnswers" \notin DOMAIN question
  \/ question.type = "list" /\ "expectedItems" \notin DOMAIN question

formatExpectedAnswer(question) ==
  CASE question.type = "short-answer" ->
         (IF Len(question.acceptedAnswers) > 0 THEN question.acceptedAnswers[1] ELSE <<>>)
    [] question.type = "list" -> join(question.expectedItems)
    [] OTHER -> Undefined

\* ------------------------------------------------------------------------
\* Inputs: question sets, concurrency limits, remote behaviours
\* ------------------------------------------------------------------------
SectionNames == {"A", "B"}

QuestionIds == <<"q1", "q2", "q3", "q4">>

\* The k-th question of a section file: odd positions are short-answer
\* questions, even positions list questions.  Ids are unique within a
\* section and shared between sections.
QuestionAt(k) ==
  IF k % 2 = 1
  THEN [id |-> QuestionIds[k], type |-> "short-answer", acceptedAnswers |-> << <<"B">> >>]
  ELSE [id |-> QuestionIds[k], type |-> "list", expectedItems |-> << <<"a">>, <<"b">> >>]

\* QuestionFile (systemPrompt and description do not reach the results)
QuestionFiles ==
  {[section |-> name, questions |-> [k \in 1..c |-> QuestionAt(k)]] :
     name \in SectionNames, c \in 0..MaxQuestions}

RECURSIVE SeqsUpTo(_, _)
SeqsUpTo(S, k) ==
  IF k = 0 THEN {<<>>}
  ELSE LET shorter == SeqsUpTo(S, k - 1) IN
       shorter \cup {Append(q, x) : q \in {y \in shorter : Len(y) = k - 1}, x \in S}

RECURSIVE CountQuestions(_)
CountQuestions(files) ==
  IF files = <<>> THEN 0 ELSE Len(Head(files).questions) + CountQuestions(Tail(files))

\* Section names are not required to differ.  Up to renaming, the first
\* file is named "A".
QuestionSets ==
  {files \in SeqsUpTo(QuestionFiles, MaxSections) :
     /\ CountQuestions(files) <= MaxTasks
     /\ files # <<>> => files[1].section = "A"}

\* Question sets that consist of one section file
SingleFileSets ==
  {<<>>} \cup
  {<<[section |-> "A", questions |-> [k \in 1..c |-> QuestionAt(k)]]>> : c \in 0..MaxTasks}

Concurrencies == (-1..MaxLimit) \cup {DEFAULT_CONCURRENCY}

\* the registry of models: id and the reasoning settings of each entry
MODELS ==
  << [id |-> "grok-4.1-fast"],
     [id |-> "claude-sonnet-4"],
     [id |-> "claude-sonnet-4-thinking", reasoningBudget |-> 16000],
     [id |-> "claude-sonnet-4.5"],
     [id |-> "claude-sonnet-4.5-thinking", reasoningBudget |-> 16000],
     [id |-> "claude-opus-4.5"],
     [id |-> "claude-opus-4.5-thinking", reasoningBudget |-> 16000],
     [id |-> "grok-4"],
     [id |-> "gemini-3-pro"],
     [id |-> "deepseek-v3.2"],
     [id |-> "glm-4.7"],
     [id |-> "gpt-5"],
     [id |-> "gpt-5-low", reasoningEffort |-> "low"],
     [id |-> "gpt-5-medium", reasoningEffort |-> "medium"],
     [id |-> "gpt-5-high", reasoningEffort |-> "high"],
     [id |-> "gpt-5.1"],
     [id |-> "gpt-5.1-low", reasoningEffort |-> "low"],
     [id |-> "gpt-5.1-medium", reasoningEffort |-> "medium"],
     [id |-> "gpt-5.1-high", reasoningEffort |-> "high"],
     [id |-> "gpt-5.2"],
     [id |-> "gpt-5.2-low", reasoningEffort |-> "low"],
     [id |-> "gpt-5.2-medium", reasoningEffort |-> "medium"],
     [id |-> "gpt-5.2-high", reasoningEffort |-> "high"] >>

\* every ModelConfig of the registry, and configurations outside it with
\* any combination of the two optional reasoning settings
ModelConfigs ==
  {MODELS[k] : k \in DOMAIN MODELS}
    \cup {[id |-> "custom"]}
    \cup {[id |-> "custom", reasoningBudget |-> b] : b \in {0, 1, 16000}}
    \cup {[id |-> "custom", reasoningEffort |-> e] : e \in {"low", "medium", "high"}}
    \cup {[id |-> "custom", reasoningBudget |-> b, reasoningEffort |-> e] :
            b \in {0, 1, 16000}, e \in {"low", "medium", "high"}}

\* Answer texts the remote model may give
Answers == { <<"a", NL, "b">>, <<"-", " ", "a">> }

\* Bodies of a 2xx response after response.json()
Payloads ==
  {[choices |-> <<a>>] : a \in Answers} \cup {[choices |-> <<>>], [error |-> "e"]}

\* What the underlying fetch call can do when it settles
FetchEvents ==
  {[kind |-> "json", payload |-> p] : p \in Payloads}
    \cup {[kind |-> "status"], [kind |-> "syntax"], [kind |-> "network"]}

TIMEOUT == <<"[", "T", "I", "M", "E", "O", "U", "T", "]">>

Empty == [empty |-> TRUE]

NoIndex == -1

NoResult == [none |-> TRUE]

NoError == "none"

\* ------------------------------------------------------------------------
\* State
\* ------------------------------------------------------------------------
VARIABLES
  remote,                     \* the behaviour of the remote service: "any", or a policy
  questionFiles,              \* loadQuestions(): the ordered list of section files
  concurrency,                \* the concurrency argument of runBenchmarkForModel
  model,                      \* the ModelConfig argument of runBenchmarkForModel
  pc,                         \* runBenchmarkForModel: "init", "running", "returned", "threw"
  runError,                   \* the error runBenchmarkForModel rejected with
  benchmarkResult,            \* the BenchmarkResult it returned
  flattenedQuestions,         \* items of runWithConcurrency
  results,                    \* runWithConcurrency: the output slots
  currentIndex,               \* runWithConcurrency: the shared cursor
  workers,                    \* the promises of worker(): state and claimed index
  promiseAll,                 \* Promise.all(workers): "none", "pending", "resolved", "rejected"
  tasks,                      \* per item: fetch, timer, race, askQuestion and unit state
  questionsInFlight,
  completedQuestionsOverall,
  progress,                   \* the ProgressInfo snapshots handed to onProgress in this turn
  reported,                   \* history: per index, the number of reports of each status
  claimedBy,                  \* history: per index, the workers that claimed it
  writtenBy,                  \* history: per index, the workers that wrote its slot
  fnCalls,                    \* history: per index, invocations of the unit function
  scoreCalls,                 \* history: per index, invocations of scoreQuestion
  settledWith,                \* history: per index, the value the unit resolved to
  models,                     \* runMultipleModels: the models argument (ids)
  force,                      \* runMultipleModels: the force argument
  parallel,                   \* runMultipleModels: the parallel argument
  stored,                     \* the results directory: per model id, what is stored
  batchPc,                    \* runMultipleModels: "idle", "running", "allCached", "done", "threw"
  modelsToRun,
  completed,
  running,
  skipped,
  batchResults,               \* runMultipleModels: the results Map (id -> origin of the result)
  runModelPc,                 \* per model id, the position of its runModel call
  invoked,                    \* history: per model id, invocations of runBenchmarkForModel
  threwFor                    \* history: the model ids whose runBenchmarkForModel call threw

vars ==
  <<remote, questionFiles, concurrency, model, pc, runError, benchmarkResult, flattenedQuestions,
    results, currentIndex, workers, promiseAll, tasks, questionsInFlight,
    completedQuestionsOverall, progress, reported, claimedBy, writtenBy, fnCalls, scoreCalls,
    settledWith, models, force, parallel, stored, batchPc, modelsToRun, completed, running,
    skipped, batchResults, runModelPc, invoked, threwFor>>

\* the state of runMultipleModels
batchVars ==
  <<models, force, parallel, stored, batchPc, modelsToRun, completed, running, skipped,
    batchResults, runModelPc, invoked, threwFor>>

\* the state of one runBenchmarkForModel call
runVars ==
  <<remote, questionFiles, concurrency, model, pc, runError, benchmarkResult, flattenedQuestions,
    results, currentIndex, workers, promiseAll, tasks, questionsInFlight,
    completedQuestionsOverall, progress, reported, claimedBy, writtenBy, fnCalls, scoreCalls,
    settledWith>>

\* The mutable state of one run as a record, so that the code's sequential
\* steps compose as functions.
Cur ==
  [items |-> flattenedQuestions, pc |-> pc, runError |-> runError,
   benchmarkResult |-> benchmarkResult, results |-> results,
   currentIndex |-> currentIndex, workers |-> workers, promiseAll |-> promiseAll,
   tasks |-> tasks, questionsInFlight |-> questionsInFlight,
   completedQuestionsOverall |-> completedQuestionsOverall, progress |-> <<>>,
   reported |-> reported,
   claimedBy |-> claimedBy, writtenBy |-> writtenBy, fnCalls |-> fnCalls,
   scoreCalls |-> scoreCalls, settledWith |-> settledWith, thrown |-> NoError]

Install(S) ==
  /\ flattenedQuestions' = S.items
  /\ pc' = S.pc
  /\ runError' = S.runError
  /\ benchmarkResult' = S.benchmarkResult
  /\ results' = S.results
  /\ currentIndex' = S.currentIndex
  /\ workers' = S.workers
  /\ promiseAll' = S.promiseAll
  /\ tasks' = S.tasks
  /\ questionsInFlight' = S.questionsInFlight
  /\ completedQuestionsOverall' = S.completedQuestionsOverall
  /\ progress' = S.progress
  /\ reported' = S.reported
  /\ claimedBy' = S.claimedBy
  /\ writtenBy' = S.writtenBy
  /\ fnCalls' = S.fnCalls
  /\ scoreCalls' = S.scoreCalls
  /\ settledWith' = S.settledWith
  /\ UNCHANGED <<remote, questionFiles, concurrency, model>>
  /\ UNCHANGED batchVars

\* Per item: the underlying fetch ("none", "inflight", "fulfilled",
\* "rejected"), the timer ("none", "armed", "fired"), the promise of
\* Promise.race and of askQuestion (pending, or how they settled), whether
\* controller.abort() was called, and the promise of the unit function
\* ("none", "running", "resolved", "threw").
IdleTask ==
  [fetch |-> "none", timer |-> "none", race |-> [st |-> "none"], aborted |-> FALSE,
   ask |-> [st |-> "none"], unit |-> "none"]

\* ------------------------------------------------------------------------
\* runBenchmarkForModel: flatten
\* ------------------------------------------------------------------------
\* bug variant: the sections are flattened last file first
RECURSIVE FlattenFromReverse(_, _)
FlattenFromReverse(files, sectionIndex) ==
  IF sectionIndex >= Len(files) THEN <<>>
  ELSE FlattenFromReverse(files, sectionIndex + 1)
         \o (LET section == files[sectionIndex + 1] IN
             [k \in 1..Len(section.questions) |->
                [question |-> section.questions[k], section |-> section,
                 sectionIndex |-> sectionIndex]])

RECURSIVE FlattenFrom(_, _)
FlattenFrom(files, sectionIndex) ==
  IF sectionIndex >= Len(files) THEN <<>>
  ELSE LET section == files[sectionIndex + 1] IN
       [k \in 1..Len(section.questions) |->
          [question |-> section.questions[k], section |-> section,
           sectionIndex |-> sectionIndex]]
         \o FlattenFrom(files, sectionIndex + 1)

Flatten(files) == FlattenFrom(files, 0)

\* for (const question of section.questions) throws a TypeError on a section
\* without a question list
FlattenThrows(files) == \E s \in 1..Len(files) : "questions" \notin DOMAIN files[s]

\* ------------------------------------------------------------------------
\* runBenchmarkForModel: the unit function, up to its await
\* ------------------------------------------------------------------------
ProgressInfo(S, index, status, lastResult) ==
  LET fq == S.items[index + 1] IN
  [currentSection |-> fq.section.section,
   sectionIndex |-> fq.sectionIndex,
   totalSections |-> Len(questionFiles),
   questionsInFlight |-> S.questionsInFlight,
   totalQuestionsInSection |-> Len(fq.section.questions),
   totalQuestionsOverall |-> Len(S.items),
   completedQuestionsOverall |-> S.completedQuestionsOverall,
   currentQuestionId |-> fq.question.id,
   status |-> status,
   lastResult |-> lastResult,
   task |-> index,
   dispatched |-> S.tasks[index].fetch # "none"]

\* onProgress?.(info); task and dispatched are history fields: the index of
\* the reporting task and whether its request had been dispatched by then
onProgress(S, info) ==
  [S EXCEPT !.progress = Append(@, info), !.reported[info.task][info.status] = @ + 1]

\* bug variant: the effort is added to the reasoning object already there
requestMerged(config) ==
  LET reasoningBudget == IF "reasoningBudget" \in DOMAIN config
                         THEN config.reasoningBudget ELSE 0
      r1 == IF reasoningBudget # 0
            THEN ("reasoning" :> [max_tokens |-> reasoningBudget])
                   @@ ("max_tokens" :> reasoningBudget + 4096) @@ [temperature |-> 0]
            ELSE [temperature |-> 0]
  IN IF "reasoningEffort" \in DOMAIN config
     THEN ("reasoning" :> (IF "reasoning" \in DOMAIN r1
                           THEN [max_tokens |-> r1.reasoning.max_tokens,
                                 effort |-> config.reasoningEffort]
                           ELSE [effort |-> config.reasoningEffort]))
            @@ ("max_tokens" :> 16384) @@ r1
     ELSE r1

\* askQuestion: the ChatCompletionRequest it builds (model and messages are
\* left out); an undefined or zero budget is falsy
request(config) ==
  LET reasoningBudget == IF "reasoningBudget" \in DOMAIN config
                         THEN config.reasoningBudget ELSE 0
      r1 == IF reasoningBudget # 0
            THEN ("reasoning" :> [max_tokens |-> reasoningBudget])
                   @@ ("max_tokens" :> reasoningBudget + 4096) @@ [temperature |-> 0]
            ELSE [temperature |-> 0]
  IN IF "reasoningEffort" \in DOMAIN config
     THEN ("reasoning" :> [effort |-> config.reasoningEffort])
            @@ ("max_tokens" :> 16384) @@ r1
     ELSE r1

\* chatCompletion: arms the timer, dispatches the fetch, races the two
chatCompletion(req) ==
  [fetch |-> "inflight", timer |-> "armed", race |-> [st |-> "pending"],
   aborted |-> FALSE, ask |-> [st |-> "pending"], unit |-> "running", request |-> req]

\* bug variant: the request is dispatched before the first report
TaskStartDispatchFirst(S, index) ==
  LET S1 == [S EXCEPT !.questionsInFlight = @ + 1, !.fnCalls[index] = @ + 1,
                      !.tasks[index] = chatCompletion(request(model))]
  IN onProgress(S1, ProgressInfo(S1, index, "running", NoResult))

TaskStart(S, index) ==
  LET S1 == [S EXCEPT !.questionsInFlight = @ + 1, !.fnCalls[index] = @ + 1]
      S2 == onProgress(S1, ProgressInfo(S1, index, "running", NoResult))
  IN [S2 EXCEPT !.tasks[index] = chatCompletion(request(model))]

\* ------------------------------------------------------------------------
\* runWithConcurrency
\* ------------------------------------------------------------------------
\* bug variant: the worker count is not clamped to the number of items
WorkerCountUnclamped(limit, n) == limit

WorkerCount(limit, n) == Min(limit, n)

\* bug variant: the cursor is read but not advanced with the claim
ClaimIndexNoAdvance(S, w) ==
  [S EXCEPT !.claimedBy[S.currentIndex] = Append(@, w),
            !.workers[w] = [st |-> "awaiting", index |-> S.currentIndex]]

\* const index = currentIndex++
ClaimIndex(S, w) ==
  [S EXCEPT !.currentIndex = @ + 1,
            !.claimedBy[S.currentIndex] = Append(@, w),
            !.workers[w] = [st |-> "awaiting", index |-> S.currentIndex]]

\* worker(): from the loop test to the next await, or to the return
RECURSIVE WorkerLoop(_, _)
WorkerLoop(S, w) ==
  IF S.currentIndex < Len(S.items)
  THEN IF S.items[S.currentIndex + 1] # Undefined
       THEN TaskStart(ClaimIndex(S, w), S.currentIndex)
       ELSE WorkerLoop(ClaimIndex(S, w), w)
  ELSE [S EXCEPT !.workers[w] = [st |-> "done", index |-> NoIndex]]

\* bug variant: the slot is taken from the shared cursor after the await
SlotIndexShared(S, w) == S.currentIndex - 1

\* the slot a resumed worker writes: its local const index
SlotIndex(S, w) == S.workers[w].index

\* bug variant: a worker returns after its first unit instead of looping
WorkerResumeOnce(S, w, value) ==
  [S EXCEPT !.results[SlotIndex(S, w)] = value,
            !.writtenBy[SlotIndex(S, w)] = Append(@, w),
            !.workers[w] = [st |-> "done", index |-> NoIndex]]

\* results[index] = <awaited value>, then around the loop
WorkerResume(S, w, value) ==
  LET index == SlotIndex(S, w)
      S1 == [S EXCEPT !.results[index] = value, !.writtenBy[index] = Append(@, w)]
  IN WorkerLoop(S1, w)

\* Array(k).fill(null).map(() => worker())
RECURSIVE Spawn(_, _, _)
Spawn(S, w, k) ==
  IF w > k THEN S
  ELSE LET S1 == [S EXCEPT !.workers = Append(@, [st |-> "new", index |-> NoIndex])]
       IN Spawn(WorkerLoop(S1, w), w + 1, k)

WorkerAwaiting(S, index) ==
  CHOOSE w \in 1..Len(S.workers) :
    S.workers[w].st = "awaiting" /\ S.workers[w].index = index

\* ------------------------------------------------------------------------
\* chatCompletion / askQuestion: settling
\* ------------------------------------------------------------------------
\* fetchPromise: how the async function around fetch settles
FetchPromise(ev) ==
  CASE ev.kind = "json" -> [st |-> "fulfilled", value |-> ev.payload]
    [] ev.kind = "status" -> [st |-> "rejected", error |-> "Error"]
    [] ev.kind = "syntax" -> [st |-> "rejected", error |-> "SyntaxError"]
    [] OTHER -> [st |-> "rejected", error |-> "NetworkError"]

TimeoutPromise == [st |-> "rejected", error |-> "TimeoutError"]

\* Promise.race: a settlement decides the race only while it is pending
RaceOpen(call) == call.race.st = "pending"

\* bug variant: the catch clause degrades every error to a timeout result
askQuestionCatchAll(settled) ==
  IF settled.st = "fulfilled" /\ "choices" \in DOMAIN settled.value
  THEN [st |-> "returned",
        answer |-> IF Len(settled.value.choices) > 0
                   THEN settled.value.choices[1] ELSE <<>>,
        timedOut |-> FALSE]
  ELSE [st |-> "returned", answer |-> <<>>, timedOut |-> TRUE]

\* askQuestion: the try/catch around the awaited chatCompletion
askQuestion(settled) ==
  IF settled.st = "fulfilled"
  THEN IF "choices" \in DOMAIN settled.value
       THEN [st |-> "returned",
             answer |-> IF Len(settled.value.choices) > 0
                        THEN settled.value.choices[1] ELSE <<>>,
             timedOut |-> FALSE]
       ELSE [st |-> "threw", error |-> "TypeError"]
  ELSE IF settled.error = "TimeoutError"
       THEN [st |-> "returned", answer |-> <<>>, timedOut |-> TRUE]
       ELSE [st |-> "threw", error |-> settled.error]

\* bug variant: the answer of a timed-out request is scored like any other
ScoredAlways(a) == TRUE

\* whether the unit function scores the answer
Scored(a) == ~a.timedOut

\* bug variant: questionsInFlight is not decremented when a unit finishes
TaskFinishNoDecrement(S, index, a) ==
  LET fq == S.items[index + 1]
      sc == IF Scored(a) THEN scoreQuestion(a.answer, fq.question)
            ELSE [correct |-> FALSE, score |-> Zero]
      result == [questionId |-> fq.question.id,
                 type |-> fq.question.type,
                 correct |-> sc.correct,
                 score |-> sc.score,
                 modelResponse |-> IF a.timedOut THEN TIMEOUT ELSE a.answer,
                 expectedAnswer |-> formatExpectedAnswer(fq.question),
                 timedOut |-> a.timedOut,
                 sectionName |-> fq.section.section,
                 task |-> index]
      S1 == [S EXCEPT !.completedQuestionsOverall = @ + 1,
                      !.scoreCalls[index] = IF Scored(a) THEN @ + 1 ELSE @,
                      !.tasks[index].unit = "resolved",
                      !.settledWith[index] = result]
      last == [correct |-> sc.correct, score |-> sc.score, timedOut |-> a.timedOut]
  IN onProgress(S1, ProgressInfo(S1, index, "scored", last))

\* the unit function after its await: score, build the result, report
TaskFinish(S, index, a) ==
  LET fq == S.items[index + 1]
      sc == IF Scored(a) THEN scoreQuestion(a.answer, fq.question)
            ELSE [correct |-> FALSE, score |-> Zero]
      result == [questionId |-> fq.question.id,
                 type |-> fq.question.type,
                 correct |-> sc.correct,
                 score |-> sc.score,
                 modelResponse |-> IF a.timedOut THEN TIMEOUT ELSE a.answer,
                 expectedAnswer |-> formatExpectedAnswer(fq.question),
                 timedOut |-> a.timedOut,
                 sectionName |-> fq.section.section,
                 task |-> index]
      S1 == [S EXCEPT !.questionsInFlight = @ - 1,
                      !.completedQuestionsOverall = @ + 1,
                      !.scoreCalls[index] = IF Scored(a) THEN @ + 1 ELSE @,
                      !.tasks[index].unit = "resolved",
                      !.settledWith[index] = result]
      last == [correct |-> sc.correct, score |-> sc.score, timedOut |-> a.timedOut]
  IN onProgress(S1, ProgressInfo(S1, index, "scored", last))

\* the unit function throws: the promise of its worker rejects
TaskThrow(S, index, error) ==
  [S EXCEPT !.tasks[index].unit = "threw",
            !.workers[WorkerAwaiting(S, index)] = [st |-> "rejected", index |-> index],
            !.thrown = error]

\* the error the unit function throws after its await on a question the
\* scorer cannot handle: destructuring the undefined verdict, or an error
\* out of scoreQuestion or formatExpectedAnswer; NoError when it throws none
UnitError(question, a) ==
  LET sc == IF Scored(a) THEN scoreQuestion(a.answer, question)
            ELSE [correct |-> FALSE, score |-> Zero]
  IN IF sc = Undefined THEN "TypeError"
     ELSE IF "thrown" \in DOMAIN sc THEN sc.thrown
     ELSE IF formatExpectedAnswerThrows(question) THEN "TypeError"
     ELSE NoError

\* everything that runs once the promise of chatCompletion has settled
AskSettled(S, index, settled) ==
  LET a == askQuestion(settled)
      S0 == [S EXCEPT !.tasks[index].ask = a]
      question == S.items[index + 1].question
  IN IF a.st = "threw"
     THEN TaskThrow(S0, index, a.error)
     ELSE IF UnitError(question, a) # NoError
     THEN TaskThrow([S0 EXCEPT !.scoreCalls[index] = IF Scored(a) THEN @ + 1 ELSE @],
                    index, UnitError(question, a))
     ELSE LET S1 == TaskFinish(S0, index, a)
          IN WorkerResume(S1, WorkerAwaiting(S1, index), S1.settledWith[index])

\* bug variant: a reply that arrives after the race was decided replaces the
\* outcome of askQuestion and of the unit
OnFetchLateWins(S, index, ev) ==
  LET p == FetchPromise(ev)
      S1 == [S EXCEPT !.tasks[index].fetch = p.st]
  IN IF RaceOpen(S.tasks[index])
     THEN AskSettled([S1 EXCEPT !.tasks[index].race = p], index, p)
     ELSE [S1 EXCEPT !.tasks[index].ask = askQuestion(p),
                     !.settledWith[index] =
                        IF askQuestion(p).st = "returned" /\ @ # Empty
                        THEN [@ EXCEPT !.timedOut = FALSE] ELSE @,
                     !.pc = IF askQuestion(p).st = "threw" THEN "threw" ELSE @]

\* the underlying call settles
OnFetch(S, index, ev) ==
  LET p == FetchPromise(ev)
      S1 == [S EXCEPT !.tasks[index].fetch = p.st]
  IN IF RaceOpen(S.tasks[index])
     THEN AskSettled([S1 EXCEPT !.tasks[index].race = p], index, p)
     ELSE S1

\* bug variant: the timer only aborts the fetch and leaves the race to it
OnTimeoutAbortOnly(S, index) ==
  [S EXCEPT !.tasks[index].timer = "fired", !.tasks[index].aborted = TRUE]

\* the setTimeout callback: controller.abort(); reject(new TimeoutError)
OnTimeout(S, index) ==
  LET S1 == [S EXCEPT !.tasks[index].timer = "fired", !.tasks[index].aborted = TRUE]
  IN IF RaceOpen(S.tasks[index])
     THEN AskSettled([S1 EXCEPT !.tasks[index].race = TimeoutPromise], index, TimeoutPromise)
     ELSE S1

\* ------------------------------------------------------------------------
\* runBenchmarkForModel: re-group and aggregate
\* ------------------------------------------------------------------------
\* the key under which an outcome is filed in resultsBySection
GroupKey(result) == result.sectionName

StripSectionName(result) == [f \in DOMAIN result \ {"sectionName"} |-> result[f]]

\* bug variant: the outcomes of a key are collected last-first
RECURSIVE GroupFromPrepend(_, _, _)
GroupFromPrepend(allResults, i, key) ==
  IF i >= Len(allResults) THEN <<>>
  ELSE GroupFromPrepend(allResults, i + 1, key)
         \o (IF GroupKey(allResults[i + 1]) = key
             THEN <<StripSectionName(allResults[i + 1])>> ELSE <<>>)

RECURSIVE GroupFrom(_, _, _)
GroupFrom(allResults, i, key) ==
  IF i >= Len(allResults) THEN <<>>
  ELSE (IF GroupKey(allResults[i + 1]) = key
        THEN <<StripSectionName(allResults[i + 1])>> ELSE <<>>)
         \o GroupFrom(allResults, i + 1, key)

RECURSIVE SumScores(_)
SumScores(rs) == IF rs = <<>> THEN Zero ELSE FAdd(SumScores(SubSeq(rs, 1, Len(rs) - 1)), rs[Len(rs)].score)

RECURSIVE CountCorrect(_)
CountCorrect(rs) ==
  IF rs = <<>> THEN 0 ELSE (IF Head(rs).correct THEN 1 ELSE 0) + CountCorrect(Tail(rs))

SectionResult(section, rs) ==
  [section |-> section.section,
   totalQuestions |-> Len(section.questions),
   correctCount |-> CountCorrect(rs),
   averageScore |-> IF Len(rs) > 0 THEN FDivInt(SumScores(rs), Len(rs)) ELSE Zero,
   results |-> rs]

RECURSIVE SumTotalQuestions(_)
SumTotalQuestions(ss) ==
  IF ss = <<>> THEN 0 ELSE SumTotalQuestions(SubSeq(ss, 1, Len(ss) - 1)) + ss[Len(ss)].totalQuestions

\* bug variant: the section means are added up without their weights
RECURSIVE SumUnweighted(_)
SumUnweighted(ss) ==
  IF ss = <<>> THEN Zero
  ELSE FAdd(SumUnweighted(SubSeq(ss, 1, Len(ss) - 1)), ss[Len(ss)].averageScore)

RECURSIVE SumWeighted(_)
SumWeighted(ss) ==
  IF ss = <<>> THEN Zero
  ELSE FAdd(SumWeighted(SubSeq(ss, 1, Len(ss) - 1)),
            FMulInt(ss[Len(ss)].averageScore, ss[Len(ss)].totalQuestions))

BuildResult(files, allResults) ==
  LET names == {files[s].section : s \in 1..Len(files)}
      resultsBySection == [name \in names |-> GroupFrom(allResults, 0, name)]
      sections == [s \in 1..Len(files) |->
                     SectionResult(files[s], resultsBySection[files[s].section])]
      totalQuestions == SumTotalQuestions(sections)
  IN [sections |-> sections,
      overallScore |-> IF totalQuestions > 0
                       THEN FDivInt(SumWeighted(sections), totalQuestions)
                       ELSE Zero]

\* the code after `await runWithConcurrency(...)`
Return(S) ==
  LET n == Len(S.items)
      allResults == [k \in 1..n |-> S.results[k - 1]]
  IN IF \E k \in 1..n : allResults[k] = Empty
     THEN [S EXCEPT !.pc = "threw", !.runError = "TypeError"]
     ELSE [S EXCEPT !.pc = "returned",
                    !.benchmarkResult = BuildResult(questionFiles, allResults)]

\* await Promise.all(workers), at the end of a turn
Join(S) ==
  IF S.promiseAll # "pending" THEN S
  ELSE IF \E w \in 1..Len(S.workers) : S.workers[w].st = "rejected"
  THEN [S EXCEPT !.promiseAll = "rejected", !.pc = "threw", !.runError = S.thrown]
  ELSE IF \A w \in 1..Len(S.workers) : S.workers[w].st = "done"
  THEN Return([S EXCEPT !.promiseAll = "resolved"])
  ELSE S

\* the state in which runWithConcurrency is entered
Entered(items) ==
  LET idx == 0..(Len(items) - 1) IN
  [items |-> items, pc |-> "running", runError |-> NoError,
   benchmarkResult |-> NoResult,
   results |-> [i \in idx |-> Empty],
   currentIndex |-> 0, workers |-> <<>>, promiseAll |-> "none",
   tasks |-> [i \in idx |-> IdleTask],
   questionsInFlight |-> 0, completedQuestionsOverall |-> 0, progress |-> <<>>,
   reported |-> [i \in idx |-> [starting |-> 0, running |-> 0, scored |-> 0]],
   claimedBy |-> [i \in idx |-> <<>>],
   writtenBy |-> [i \in idx |-> <<>>],
   fnCalls |-> [i \in idx |-> 0],
   scoreCalls |-> [i \in idx |-> 0],
   settledWith |-> [i \in idx |-> Empty],
   thrown |-> NoError]

\* runWithConcurrency up to `await Promise.all(workers)`; Array(k) with a
\* negative k throws a RangeError
runWithConcurrency(S, limit) ==
  LET k == WorkerCount(limit, Len(S.items)) IN
  IF k < 0
  THEN [S EXCEPT !.pc = "threw", !.runError = "RangeError"]
  ELSE Join([Spawn(S, 1, k) EXCEPT !.promiseAll = "pending"])

\* ------------------------------------------------------------------------
\* The remote service
\* ------------------------------------------------------------------------
Timeout == [kind |-> "timeout"]

OkReply(a) == [kind |-> "json", payload |-> [choices |-> <<a>>]]

\* Remote behaviours that are a function of the item and its index
Policies == {"answer", "byType", "byIndex"}

Fate(policy, item, index) ==
  CASE policy = "answer" -> OkReply(<<"a", NL, "b">>)
    [] policy = "byType" ->
         IF item.question.type = "list" THEN Timeout ELSE OkReply(<<"-", " ", "a">>)
    [] OTHER ->
         IF index % 2 = 0 THEN [kind |-> "json", payload |-> [choices |-> <<>>]]
         ELSE OkReply(<<"a", NL, "b">>)

\* whether the remote service may decide the race of this item this way
Permits(index, fate) ==
  \/ remote = "any"
  \/ Fate(remote, flattenedQuestions[index + 1], index) = fate

\* Events that arrive after the race of their call was decided (a late
\* reply, a timer that fires after the reply) change nothing but the fetch,
\* timer and aborted fields of that call.  They are explored in runs of at
\* most MaxLateItems items.
Late(index) == ~RaceOpen(tasks[index]) /\ Len(flattenedQuestions) <= MaxLateItems

\* ------------------------------------------------------------------------
\* Actions
\* ------------------------------------------------------------------------
\* no batch: runBenchmarkForModel is called on its own
NoBatch ==
  /\ models = <<>>
  /\ force = FALSE
  /\ parallel = FALSE
  /\ stored = <<>>
  /\ batchPc = "idle"
  /\ modelsToRun = <<>>
  /\ completed = {}
  /\ running = {}
  /\ skipped = {}
  /\ batchResults = <<>>
  /\ runModelPc = <<>>
  /\ invoked = <<>>
  /\ threwFor = {}

\* runBenchmarkForModel has not been entered
RunNotStarted ==
  /\ pc = "init"
  /\ runError = NoError
  /\ benchmarkResult = NoResult
  /\ flattenedQuestions = <<>>
  /\ results = <<>>
  /\ currentIndex = 0
  /\ workers = <<>>
  /\ promiseAll = "none"
  /\ tasks = <<>>
  /\ questionsInFlight = 0
  /\ completedQuestionsOverall = 0
  /\ progress = <<>>
  /\ reported = <<>>
  /\ claimedBy = <<>>
  /\ writtenBy = <<>>
  /\ fnCalls = <<>>
  /\ scoreCalls = <<>>
  /\ settledWith = <<>>

InitRun ==
  /\ concurrency \in Concurrencies
  /\ model = MODELS[1]
  /\ NoBatch
  /\ RunNotStarted

\* any remote behaviour, one section file
Init ==
  /\ remote = "any"
  /\ questionFiles \in SingleFileSets
  /\ InitRun

\* a remote service that is a function of (item, index), any question set
InitDet ==
  /\ remote \in Policies
  /\ questionFiles \in QuestionSets
  /\ InitRun

\* runBenchmarkForModel up to its first suspension: flatten, then
\* runWithConcurrency spawns the workers, each of which claims an index and
\* dispatches its request before the next one is created.
Start ==
  /\ pc = "init"
  /\ IF FlattenThrows(questionFiles)
     THEN Install([Entered(<<>>) EXCEPT !.pc = "threw", !.runError = "TypeError"])
     ELSE Install(runWithConcurrency(Entered(Flatten(questionFiles)), concurrency))

FetchSettles(index, ev) ==
  /\ tasks[index].fetch = "inflight"
  /\ \/ RaceOpen(tasks[index]) /\ Permits(index, ev)
     \/ Late(index)
  /\ Install(Join(OnFetch(Cur, index, ev)))

\* the timer of the call is armed and may fire
TimerEnabled(index) ==
  /\ tasks[index].timer = "armed"
  /\ \/ RaceOpen(tasks[index]) /\ Permits(index, Timeout)
     \/ Late(index)

TimerFires(index) ==
  /\ TimerEnabled(index)
  /\ Install(Join(OnTimeout(Cur, index)))

Next ==
  \/ Start
  \/ \E index \in DOMAIN tasks : \E ev \in FetchEvents : FetchSettles(index, ev)
  \/ \E index \in DOMAIN tasks : TimerFires(index)

Spec == Init /\ [][Next]_vars

\* the same program, for every question set, against a remote service that
\* is deterministic in (item, index)
SpecDet == InitDet /\ [][Next]_vars

\* the event loop runs the function once it is called, and every timer that
\* setTimeout armed fires once its delay has passed: weak fairness of Start
\* and of the timer steps.  WF_vars(A) is written out as
\* []<>(~ENABLED <<A>>_vars) \/ []<><<A>>_vars: Start is enabled exactly while
\* pc = "init", a timer step exactly while TimerEnabled holds of some call.
\* one run under every ModelConfig, one request at a time
InitRequest ==
  /\ remote = "any"
  /\ questionFiles \in SingleFileSets
  /\ concurrency = 1
  /\ model \in ModelConfigs
  /\ NoBatch
  /\ RunNotStarted

SpecRequest == InitRequest /\ [][Next]_vars

SpecFair ==
  /\ Init /\ [][Next]_vars
  /\ \/ []<>(pc # "init")
     \/ []<><<Start>>_vars
  /\ \/ []<>(\A index \in DOMAIN tasks : ~TimerEnabled(index))
     \/ []<><<\E index \in DOMAIN tasks : TimerFires(index)>>_vars

\* ------------------------------------------------------------------------
\* Question sets that violate the data model
\* ------------------------------------------------------------------------
\* a question of an unknown type, and questions without their answer payload
MalformedQuestions ==
  {[id |-> "bad", type |-> "essay"],
   [id |-> "bad", type |-> "short-answer"],
   [id |-> "bad", type |-> "list"]}

MalformedQuestion(question) ==
  \/ question.type \notin {"short-answer", "list"}
  \/ question.type = "short-answer" /\ "acceptedAnswers" \notin DOMAIN question
  \/ question.type = "list" /\ "expectedItems" \notin DOMAIN question

Malformed(files) ==
  \E s \in 1..Len(files) :
    \/ "questions" \notin DOMAIN files[s]
    \/ \E k \in 1..Len(files[s].questions) : MalformedQuestion(files[s].questions[k])

\* one section with a bad question alone, after or before a good one, and
\* sections that have no question list
MalformedSets ==
  {<<[section |-> "A", questions |-> qs]>> :
     qs \in UNION {{<<b>>, <<QuestionAt(1), b>>, <<b, QuestionAt(2)>>} : b \in MalformedQuestions}}
    \cup {<<[section |-> "A"]>>,
          <<[section |-> "A", questions |-> <<QuestionAt(1)>>], [section |-> "B"]>>}

InitMalformed ==
  /\ remote = "any"
  /\ questionFiles \in MalformedSets
  /\ InitRun

SpecMalformed == InitMalformed /\ [][Next]_vars

\* ------------------------------------------------------------------------
\* The scoring engine under every answer text
\* ------------------------------------------------------------------------
\* Characters of the answer texts: letters of both cases, the line break,
\* a bullet, an ordinal ("1."), a blank
ScoreAlphabet == {"a", "B", NL, "-", "1", ".", " "}

ResponseTexts == SeqsUpTo(ScoreAlphabet, MaxResponseLen)

\* acceptedAnswers of a ShortAnswerQuestion: a non-empty list of strings
AcceptedLists ==
  { << <<"a">> >>, << <<"B">>, <<"a">> >>, << <<"a", "B">> >>, << <<>> >> }

\* expectedItems of a ListQuestion: any list of strings
ExpectedLists ==
  { <<>>, << <<"a">> >>, << <<"a">>, <<"B">> >>, << <<"B">>, <<"a">> >>,
    << <<>>, <<"a">> >> }

ScoreQuestions ==
  {[id |-> "q1", type |-> "short-answer", acceptedAnswers |-> xs] : xs \in AcceptedLists}
    \cup {[id |-> "q1", type |-> "list", expectedItems |-> xs] : xs \in ExpectedLists}

ScoreEvents == {OkReply(r) : r \in ResponseTexts}

\* one question of any allowed shape, asked once; the remote service answers
\* with any text, or not in time
InitScore ==
  /\ remote = "any"
  /\ questionFiles \in {<<[section |-> "A", questions |-> <<q>>]>> : q \in ScoreQuestions}
  /\ InitRun
  /\ concurrency = 1

NextScore ==
  \/ Start
  \/ \E index \in DOMAIN tasks : \E ev \in ScoreEvents : FetchSettles(index, ev)
  \/ \E index \in DOMAIN tasks : TimerFires(index)

SpecScore == InitScore /\ [][NextScore]_vars

\* ------------------------------------------------------------------------
\* runMultipleModels (the batch of the command line)
\* ------------------------------------------------------------------------
ModelIds == 1..MaxModels

\* what the results directory holds for a model: nothing, a result, a file
\* whose JSON is null, or a file that is not JSON
StoredStates == {"absent", "valid", "null", "corrupt"}

BatchCur ==
  [pc |-> batchPc, stored |-> stored, modelsToRun |-> modelsToRun, completed |-> completed,
   running |-> running, skipped |-> skipped, batchResults |-> batchResults,
   runModelPc |-> runModelPc, invoked |-> invoked, threwFor |-> threwFor]

BatchInstall(B) ==
  /\ batchPc' = B.pc
  /\ stored' = B.stored
  /\ modelsToRun' = B.modelsToRun
  /\ completed' = B.completed
  /\ running' = B.running
  /\ skipped' = B.skipped
  /\ batchResults' = B.batchResults
  /\ runModelPc' = B.runModelPc
  /\ invoked' = B.invoked
  /\ threwFor' = B.threwFor
  /\ UNCHANGED <<models, force, parallel>>
  /\ UNCHANGED runVars

\* bug variant: the results directory is never consulted
hasResultNever(B, m) == FALSE

\* storage.hasResult: existsSync(path)
hasResult(B, m) == B.stored[m] # "absent"

\* "Check which models need to run": models with a stored result that loads
\* are skipped, the others are queued; loadResult throws on a file that is
\* not JSON
RECURSIVE CheckCached(_, _)
CheckCached(B, k) ==
  IF k > Len(models) THEN B
  ELSE LET m == models[k] IN
       IF ~force /\ hasResult(B, m)
       THEN CASE B.stored[m] = "valid" ->
                   CheckCached([B EXCEPT !.batchResults[m] = "cached",
                                         !.skipped = @ \cup {m},
                                         !.completed = @ \cup {m}], k + 1)
              [] B.stored[m] = "corrupt" -> [B EXCEPT !.pc = "threw"]
              [] OTHER -> CheckCached(B, k + 1)
       ELSE CheckCached([B EXCEPT !.modelsToRun = Append(@, m)], k + 1)

\* runModel up to `await runBenchmarkForModel(...)`
runModel(B, m) ==
  [B EXCEPT !.running = @ \cup {m}, !.invoked[m] = @ + 1, !.runModelPc[m] = "awaitRun"]

\* the finally clause; the promise of runModel fulfils
runModelFinally(B, m) ==
  [B EXCEPT !.running = @ \ {m}, !.completed = @ \cup {m}, !.runModelPc[m] = "done"]

\* bug variant: try/finally without the catch clause, the error leaves runModel
runModelNoCatch(B, m) == [runModelFinally(B, m) EXCEPT !.runModelPc[m] = "rejected"]

\* the catch clause logs the error, then the finally clause runs
runModelCatch(B, m) == runModelFinally(B, m)

\* modelsToRun.map(runModel): every runModel runs up to its first await
RECURSIVE StartAll(_, _)
StartAll(B, k) ==
  IF k > Len(B.modelsToRun) THEN B ELSE StartAll(runModel(B, B.modelsToRun[k]), k + 1)

PositionOf(B, m) == CHOOSE k \in 1..Len(B.modelsToRun) : B.modelsToRun[k] = m

\* what awaits the promise of runModel(m): Promise.all in parallel mode, the
\* for loop otherwise
AfterRunModel(B, m) ==
  IF B.runModelPc[m] = "rejected" THEN [B EXCEPT !.pc = "threw"]
  ELSE IF parallel
  THEN IF \A k \in 1..Len(B.modelsToRun) : B.runModelPc[B.modelsToRun[k]] = "done"
       THEN [B EXCEPT !.pc = "done"] ELSE B
  ELSE IF PositionOf(B, m) < Len(B.modelsToRun)
       THEN runModel(B, B.modelsToRun[PositionOf(B, m) + 1])
       ELSE [B EXCEPT !.pc = "done"]

\* runMultipleModels up to its first wait for a model
StartBatch ==
  /\ batchPc = "idle"
  /\ models # <<>>
  /\ LET B1 == CheckCached(BatchCur, 1) IN
     BatchInstall(
       IF B1.pc = "threw" THEN B1
       ELSE IF B1.modelsToRun = <<>> THEN [B1 EXCEPT !.pc = "allCached"]
       ELSE IF parallel THEN StartAll([B1 EXCEPT !.pc = "running"], 1)
       ELSE runModel([B1 EXCEPT !.pc = "running"], B1.modelsToRun[1]))

\* runSingleModel: `return result` after the save, the stored file is the
\* result of this run
runSingleModelReturn(B, m) ==
  [B EXCEPT !.stored[m] = "valid", !.batchResults[m] = "fresh",
            !.runModelPc[m] = "done", !.pc = "singleDone"]

\* runSingleModel: the catch clause logs the error and returns null
runSingleModelCatch(B, m) == [B EXCEPT !.runModelPc[m] = "done", !.pc = "singleDone"]

\* runSingleModel up to its first wait: the cached result is returned, or
\* runBenchmarkForModel is called; loadResult throws on a file that is not
\* JSON, outside the try block
StartSingle ==
  /\ batchPc = "idleSingle"
  /\ LET m == models[1]
         B == BatchCur
     IN BatchInstall(
          IF ~force /\ hasResult(B, m) /\ B.stored[m] = "corrupt"
          THEN [B EXCEPT !.pc = "threw"]
          ELSE IF ~force /\ hasResult(B, m) /\ B.stored[m] = "valid"
          THEN [B EXCEPT !.batchResults[m] = "cached", !.pc = "singleDone"]
          ELSE [B EXCEPT !.invoked[m] = @ + 1, !.runModelPc[m] = "awaitRun",
                         !.pc = "singleRunning"])

\* runBenchmarkForModel of model m settles: it returns a result, or it throws
RunSettles(m, outcome) ==
  /\ runModelPc[m] = "awaitRun"
  /\ BatchInstall(
       IF outcome = "returned" THEN [BatchCur EXCEPT !.runModelPc[m] = "awaitSave"]
       ELSE IF batchPc = "singleRunning"
       THEN runSingleModelCatch([BatchCur EXCEPT !.threwFor = @ \cup {m}], m)
       ELSE AfterRunModel(runModelCatch([BatchCur EXCEPT !.threwFor = @ \cup {m}], m), m))

\* saveResult of model m settles: the file is written, or the write fails
SaveSettles(m, written) ==
  /\ runModelPc[m] = "awaitSave"
  /\ BatchInstall(
       IF batchPc = "singleRunning"
       THEN IF written THEN runSingleModelReturn(BatchCur, m)
            ELSE runSingleModelCatch(BatchCur, m)
       ELSE IF written
       THEN AfterRunModel(
              runModelFinally([BatchCur EXCEPT !.stored[m] = "valid",
                                               !.batchResults[m] = "fresh"], m), m)
       ELSE AfterRunModel(runModelCatch(BatchCur, m), m))

InitBatch ==
  /\ remote = "any"
  /\ questionFiles = <<>>
  /\ concurrency = DEFAULT_CONCURRENCY
  /\ model = MODELS[1]
  /\ RunNotStarted
  /\ models \in {[k \in 1..n |-> k] : n \in ModelIds}
  /\ force \in BOOLEAN
  /\ parallel \in BOOLEAN
  /\ stored \in [DOMAIN models -> StoredStates]
  /\ batchPc = "idle"
  /\ modelsToRun = <<>>
  /\ completed = {}
  /\ running = {}
  /\ skipped = {}
  /\ batchResults = [m \in DOMAIN models |-> "none"]
  /\ runModelPc = [m \in DOMAIN models |-> "idle"]
  /\ invoked = [m \in DOMAIN models |-> 0]
  /\ threwFor = {}

NextBatch ==
  \/ StartBatch
  \/ \E m \in DOMAIN runModelPc : \E outcome \in {"returned", "threw"} : RunSettles(m, outcome)
  \/ \E m \in DOMAIN runModelPc : \E written \in BOOLEAN : SaveSettles(m, written)

SpecBatch == InitBatch /\ [][NextBatch]_vars

\* the command line: `run <model>` and `force <model>` call runSingleModel,
\* `run all` and `force all` call runMultipleModels
InitCommand ==
  /\ remote = "any"
  /\ questionFiles = <<>>
  /\ concurrency = DEFAULT_CONCURRENCY
  /\ model = MODELS[1]
  /\ RunNotStarted
  /\ models \in {[k \in 1..n |-> k] : n \in ModelIds}
  /\ force \in BOOLEAN
  /\ parallel \in BOOLEAN
  /\ stored \in [DOMAIN models -> StoredStates]
  /\ batchPc \in IF Len(models) = 1 /\ ~parallel THEN {"idle", "idleSingle"} ELSE {"idle"}
  /\ modelsToRun = <<>>
  /\ completed = {}
  /\ running = {}
  /\ skipped = {}
  /\ batchResults = [m \in DOMAIN models |-> "none"]
  /\ runModelPc = [m \in DOMAIN models |-> "idle"]
  /\ invoked = [m \in DOMAIN models |-> 0]
  /\ threwFor = {}

NextCommand ==
  \/ StartBatch
  \/ StartSingle
  \/ \E m \in DOMAIN runModelPc : \E outcome \in {"returned", "threw"} : RunSettles(m, outcome)
  \/ \E m \in DOMAIN runModelPc : \E written \in BOOLEAN : SaveSettles(m, written)

SpecCommand == InitCommand /\ [][NextCommand]_vars

\* ------------------------------------------------------------------------
\* Vocabulary of the properties
\* ------------------------------------------------------------------------
N == Len(flattenedQuestions)

Indices == DOMAIN tasks

\* units whose function was started and whose promise has not settled
ActiveUnits == {i \in Indices : tasks[i].unit = "running"}

\* runWithConcurrency resolved, for a valid limit
RunnerResolved == promiseAll = "resolved" /\ concurrency >= 1

\* a run in which the second worker finished its first unit before the
\* first worker did, and so claimed the third item
OutOfOrderRun ==
  /\ N = 3
  /\ concurrency = 2
  /\ claimedBy[2] = <<2>>

\* the result array of the sequential run (limit 1) of the same items against
\* the same deterministic remote service
RECURSIVE RunSequential(_)
RunSequential(S) ==
  IF Len(S.workers) = 1 /\ S.workers[1].st = "awaiting"
  THEN LET index == S.workers[1].index
           fate == Fate(remote, S.items[index + 1], index)
       IN RunSequential(Join(IF fate = Timeout THEN OnTimeout(S, index)
                             ELSE OnFetch(S, index, fate)))
  ELSE S

SequentialResults == RunSequential(runWithConcurrency(Entered(flattenedQuestions), 1)).results

\* ------------------------------------------------------------------------
\* Properties
\* ------------------------------------------------------------------------

\* C1: when runWithConcurrency resolves (limit >= 1), the returned array has
\* one slot per item and slot i holds the value the unit function of item i
\* resolved to, whatever the order in which the units completed.
C1_OrderPreserved ==
  RunnerResolved =>
    /\ DOMAIN results = 0..(N - 1)
    /\ \A i \in 0..(N - 1) : settledWith[i] # Empty /\ results[i] = settledWith[i]

C1_Witness == RunnerResolved /\ OutOfOrderRun

\* C2: for a limit >= 1, the number of units started and not yet settled never
\* exceeds min(limit, items.length), and exactly min(limit, items.length)
\* workers are spawned (items.length of them when the limit is larger).
C2_BoundedActive ==
  (pc # "init" /\ concurrency >= 1) =>
    /\ Cardinality(ActiveUnits) <= Min(concurrency, N)
    /\ Len(workers) = Min(concurrency, N)

C2_Witness ==
  /\ concurrency > N
  /\ N = 3
  /\ Len(workers) = 3
  /\ Cardinality(ActiveUnits) = 3

\* C3: for a limit >= 1 no index is claimed twice, no unit function (and so no
\* request) is invoked twice, no slot is written twice or by a worker other
\* than the one that claimed it; when the runner resolves every index was
\* claimed, invoked and written exactly once.
C3_ExactlyOnce ==
  concurrency >= 1 =>
    \A i \in Indices :
      /\ Len(claimedBy[i]) <= 1
      /\ fnCalls[i] <= 1
      /\ Len(writtenBy[i]) <= 1
      /\ writtenBy[i] # <<>> => writtenBy[i] = claimedBy[i]
      /\ promiseAll = "resolved" =>
           Len(claimedBy[i]) = 1 /\ fnCalls[i] = 1 /\ Len(writtenBy[i]) = 1

C3_Witness ==
  /\ RunnerResolved
  /\ OutOfOrderRun
  /\ writtenBy[0] = <<1>>
  /\ writtenBy[1] = <<2>>
  /\ writtenBy[2] = <<2>>

\* C4: against a remote service that is deterministic in (item, index), the
\* array runWithConcurrency resolves with for any limit >= 1 equals, slot by
\* slot, the array of the sequential run with limit 1.
C4_SameAsSequential ==
  RunnerResolved => results = SequentialResults

C4_Witness ==
  /\ RunnerResolved
  /\ OutOfOrderRun
  /\ remote = "byIndex"

\* ------------------------------------------------------------------------
\* Vocabulary of the properties about results and errors
\* ------------------------------------------------------------------------
\* what decided the race of item i: "none", "pending", "fulfilled", or the
\* name of the error it rejected with
RaceWonBy(i) ==
  IF tasks[i].race.st = "rejected" THEN tasks[i].race.error ELSE tasks[i].race.st

TimedOutTask(i) == RaceWonBy(i) = "TimeoutError"

\* the reply was a 2xx response whose JSON body has no choices array
NoChoices(i) ==
  tasks[i].race.st = "fulfilled" /\ "choices" \notin DOMAIN tasks[i].race.value

\* the reply was a 2xx response whose choices array is empty
EmptyChoices(i) ==
  /\ tasks[i].race.st = "fulfilled"
  /\ "choices" \in DOMAIN tasks[i].race.value
  /\ tasks[i].race.value.choices = <<>>

\* the request failed with a non-success status, a transport failure or a
\* body that is not JSON
FetchFailed(i) == tasks[i].race.st = "rejected" /\ ~TimedOutTask(i)

\* the places <<s, k>> of the outcome lists of the returned BenchmarkResult
Places ==
  LET secs == benchmarkResult.sections IN
  UNION {{<<s, k>> : k \in 1..Len(secs[s].results)} : s \in 1..Len(secs)}

OutcomeAt(place) == benchmarkResult.sections[place[1]].results[place[2]]

PlacesOf(i) == {place \in Places : OutcomeAt(place).task = i}

RECURSIVE SumOutcomes(_)
SumOutcomes(secs) ==
  IF secs = <<>> THEN 0 ELSE Len(Head(secs).results) + SumOutcomes(Tail(secs))

\* ------------------------------------------------------------------------
\* Properties (continued)
\* ------------------------------------------------------------------------

\* C5 (as claimed): in a returned BenchmarkResult the outcome lists together
\* hold as many outcomes as there are flattened tasks, and the outcome of
\* every task is at exactly one place, section names distinct or not.
C5_NoDropNoDuplicate ==
  pc = "returned" =>
    /\ SumOutcomes(benchmarkResult.sections) = N
    /\ \A i \in 0..(N - 1) : Cardinality(PlacesOf(i)) = 1

\* C6: a run whose units all resolved returns; in the returned result every
\* task has an outcome; the outcome of a task whose race the timer won has
\* timedOut, score 0, correct false and the response "[TIMEOUT]", and
\* scoreQuestion was not invoked for it; every other outcome carries the
\* answer and the verdict scoreQuestion gives for it, computed once.
C6_TimeoutsDegrade ==
  /\ (concurrency >= 1 /\ pc # "init" /\ \A i \in Indices : tasks[i].unit = "resolved")
       => pc = "returned"
  /\ pc = "returned" =>
       \A i \in 0..(N - 1) :
         /\ PlacesOf(i) # {}
         /\ \A place \in PlacesOf(i) :
              LET r == OutcomeAt(place)
                  q == flattenedQuestions[i + 1].question
              IN IF TimedOutTask(i)
                 THEN /\ r.timedOut
                      /\ r.score = Zero
                      /\ ~r.correct
                      /\ r.modelResponse = TIMEOUT
                      /\ scoreCalls[i] = 0
                 ELSE /\ ~r.timedOut
                      /\ scoreCalls[i] = 1
                      /\ r.modelResponse = tasks[i].ask.answer
                      /\ r.correct = scoreQuestion(tasks[i].ask.answer, q).correct
                      /\ r.score = scoreQuestion(tasks[i].ask.answer, q).score

C6_Witness ==
  /\ pc = "returned"
  /\ N = 3
  /\ TimedOutTask(0)
  /\ TimedOutTask(1)
  /\ ~TimedOutTask(2)
  /\ OutcomeAt(<<1, 3>>).score = One

\* C7 (as claimed): a request that fails with a non-success status or a
\* malformed payload makes askQuestion throw, and the run ends without a
\* BenchmarkResult.
C7_EveryFailureFatal ==
  \A i \in Indices :
    (FetchFailed(i) \/ NoChoices(i) \/ EmptyChoices(i)) =>
      /\ tasks[i].ask.st = "threw"
      /\ pc = "threw"
      /\ benchmarkResult = NoResult

\* C7 (amended): a request that fails with a non-success status, a transport
\* failure, a body that is not JSON or a payload without a choices array makes
\* askQuestion throw that error; the unit has no outcome, Promise.all and
\* runBenchmarkForModel reject and no BenchmarkResult is returned.  A payload
\* whose choices array is empty is no error: askQuestion returns the empty
\* answer with timedOut = false and the unit resolves.
C7_FatalPropagates ==
  \A i \in Indices :
    /\ (FetchFailed(i) \/ NoChoices(i)) =>
         /\ tasks[i].ask.st = "threw"
         /\ tasks[i].ask.error = (IF NoChoices(i) THEN "TypeError" ELSE tasks[i].race.error)
         /\ tasks[i].unit = "threw"
         /\ settledWith[i] = Empty
         /\ results[i] = Empty
         /\ promiseAll = "rejected"
         /\ pc = "threw"
         /\ benchmarkResult = NoResult
    /\ EmptyChoices(i) =>
         /\ tasks[i].ask = [st |-> "returned", answer |-> <<>>, timedOut |-> FALSE]
         /\ tasks[i].unit = "resolved"

C7_Witness ==
  /\ N = 3
  /\ concurrency = 2
  /\ tasks[0].unit = "resolved"
  /\ FetchFailed(1)
  /\ pc = "threw"
  /\ runError = "Error"

\* C8 (as claimed): at the step in which the run rejects because a unit
\* threw, no other unit is still in flight.
C8_RejectsAfterOthersSettle ==
  [][(pc = "running" /\ pc' = "threw") => \A i \in DOMAIN tasks' : tasks'[i].unit # "running"]_vars

\* C9: once the timer of a call has fired, askQuestion has returned or thrown,
\* whatever the underlying fetch does; when the timer decides the race,
\* askQuestion returns {timedOut: true, answer: ""}.
C9_BoundedWait ==
  \A i \in Indices :
    /\ tasks[i].timer = "fired" => tasks[i].ask.st \in {"returned", "threw"}
    /\ TimedOutTask(i) =>
         tasks[i].ask = [st |-> "returned", answer |-> <<>>, timedOut |-> TRUE]

C9_Witness ==
  \E i \in Indices :
    /\ tasks[i].timer = "fired"
    /\ tasks[i].aborted
    /\ tasks[i].fetch = "inflight"
    /\ tasks[i].ask = [st |-> "returned", answer |-> <<>>, timedOut |-> TRUE]

\* C10 (as claimed): every outcome of a returned BenchmarkResult is in the
\* SectionResult of the section its task was flattened from, and in no other.
C10_NoCrossSection ==
  pc = "returned" =>
    \A place \in Places :
      flattenedQuestions[OutcomeAt(place).task + 1].sectionIndex = place[1] - 1

\* ------------------------------------------------------------------------
\* Vocabulary of the properties about the aggregate
\* ------------------------------------------------------------------------
\* the flattened index of the k-th question (k = 1, 2, ...) of the s-th file
TaskOf(s, k) == CountQuestions(SubSeq(questionFiles, 1, s - 1)) + k - 1

\* the positions of the outcome list of the s-th SectionResult that hold an
\* outcome of a question of the s-th file
OwnPositions(s) ==
  {p \in 1..Len(benchmarkResult.sections[s].results) :
     flattenedQuestions[OutcomeAt(<<s, p>>).task + 1].sectionIndex = s - 1}

\* exact product and equality of numbers written as fractions
FTimesInt(x, k) == [n |-> x.n * k, d |-> x.d]

FSame(x, y) == x.d # 0 /\ y.d # 0 /\ x.n * y.d = y.n * x.d

RECURSIVE WeightedTotal(_, _)
WeightedTotal(secs, s) ==
  IF s = 0 THEN [n |-> 0, d |-> 1]
  ELSE LET rest == WeightedTotal(secs, s - 1)
           term == FTimesInt(secs[s].averageScore, secs[s].totalQuestions)
       IN [n |-> rest.n * term.d + term.n * rest.d, d |-> rest.d * term.d]

RECURSIVE QuestionTotal(_, _)
QuestionTotal(secs, s) ==
  IF s = 0 THEN 0 ELSE QuestionTotal(secs, s - 1) + secs[s].totalQuestions

\* ------------------------------------------------------------------------
\* Properties (aggregate)
\* ------------------------------------------------------------------------

\* C11: in every SectionResult of a returned BenchmarkResult the outcomes are
\* listed in flattening order whatever the order in which the units completed:
\* the outcome list ascends in task index, and the k-th outcome of the
\* section's own questions is the outcome of the k-th question listed in the
\* section file.
C11_SectionOrder ==
  pc = "returned" =>
    \A s \in 1..Len(questionFiles) :
      LET rs == benchmarkResult.sections[s].results
          own == OwnPositions(s)
      IN /\ \A p, q \in 1..Len(rs) : p < q => rs[p].task < rs[q].task
         /\ Cardinality(own) = Len(questionFiles[s].questions)
         /\ \A p \in own :
              LET k == Cardinality({o \in own : o <= p}) IN
              /\ rs[p].task = TaskOf(s, k)
              /\ rs[p].questionId = questionFiles[s].questions[k].id
              /\ rs[p] = StripSectionName(settledWith[TaskOf(s, k)])

\* the second question of the first section was answered before the first
C11_Witness ==
  /\ pc = "returned"
  /\ Len(questionFiles) = 2
  /\ Len(questionFiles[1].questions) = 2
  /\ Len(questionFiles[2].questions) = 1
  /\ concurrency = 2
  /\ claimedBy[2] = <<2>>
  /\ OutcomeAt(<<1, 2>>).task = 1

\* C12: overallScore times the sum of the sections' question counts equals
\* the sum over the sections of averageScore times question count.
C12_WeightedMean ==
  pc = "returned" =>
    LET secs == benchmarkResult.sections IN
    FSame(FTimesInt(benchmarkResult.overallScore, QuestionTotal(secs, Len(secs))),
          WeightedTotal(secs, Len(secs)))

\* sections of 2 and 1 questions with means 1/2 and 0: 1/3, not 1/4
C12_Witness ==
  /\ pc = "returned"
  /\ Len(benchmarkResult.sections) = 2
  /\ benchmarkResult.sections[1].totalQuestions = 2
  /\ benchmarkResult.sections[1].averageScore = Frac(1, 2)
  /\ benchmarkResult.sections[2].totalQuestions = 1
  /\ benchmarkResult.sections[2].averageScore = Zero
  /\ benchmarkResult.overallScore = Frac(1, 3)

\* ------------------------------------------------------------------------
\* Properties (progress events)
\* ------------------------------------------------------------------------
\* the outcome summary a "scored" event carries
Summary(result) ==
  [correct |-> result.correct, score |-> result.score, timedOut |-> result.timedOut]

\* the events of the current turn with the given status
EventsOf(status) == {k \in 1..Len(progress) : progress[k].status = status}

\* C13: a task whose unit function was invoked has reported "running" exactly
\* once, before its request was dispatched; it has reported "scored" exactly
\* once if its unit resolved and never otherwise, after the request was
\* dispatched and with the summary of its own outcome; no "scored" report of
\* a task precedes its "running" report.
C13_RunningThenScored ==
  /\ \A i \in Indices :
       /\ reported[i].running = (IF tasks[i].unit = "none" THEN 0 ELSE 1)
       /\ reported[i].scored = (IF tasks[i].unit = "resolved" THEN 1 ELSE 0)
  /\ \A k \in EventsOf("running") :
       /\ ~progress[k].dispatched
       /\ progress[k].lastResult = NoResult
       /\ \A l \in EventsOf("scored") : progress[l].task = progress[k].task => k < l
  /\ \A k \in EventsOf("scored") :
       /\ progress[k].dispatched
       /\ reported[progress[k].task].running = 1
       /\ progress[k].lastResult = Summary(settledWith[progress[k].task])

\* the events of two tasks interleave: task 1 is scored and task 2 starts
\* while task 0 is still running
C13_Witness ==
  /\ N = 3
  /\ Len(progress) = 2
  /\ progress[1].status = "scored" /\ progress[1].task = 1
  /\ progress[2].status = "running" /\ progress[2].task = 2
  /\ reported[0] = [starting |-> 0, running |-> 1, scored |-> 0]
  /\ tasks[0].unit = "running"

\* C14 (as claimed): every task that has reported "scored" has reported
\* "starting" before.
C14_StartingPrecedesScored ==
  \A i \in Indices : reported[i].scored >= 1 => reported[i].starting >= 1

\* ------------------------------------------------------------------------
\* Properties (scoring)
\* ------------------------------------------------------------------------
\* the tasks whose answer went through scoreQuestion
ScoredTasks == {i \in Indices : tasks[i].unit = "resolved" /\ ~TimedOutTask(i)}

ScoredLists == {i \in ScoredTasks : flattenedQuestions[i + 1].question.type = "list"}

\* a number in [0, 1]
InUnitInterval(x) == x.d > 0 /\ 0 <= x.n /\ x.n <= x.d

\* the items scoreList compares: the parsed lines of the answer of task i and
\* the expected items of its question
ResponseItemsOf(i) == parseResponseItems(tasks[i].ask.answer)

ExpectedItemsOf(i) == flattenedQuestions[i + 1].question.expectedItems

\* positions (from 1) below both lengths whose normalized texts are equal
MatchedPositions(i) ==
  {p \in 1..Len(ResponseItemsOf(i)) :
     /\ p <= Len(ExpectedItemsOf(i))
     /\ normalize(ResponseItemsOf(i)[p]) = normalize(ExpectedItemsOf(i)[p])}

\* C15 (as claimed): every score scoreQuestion returns is a number in [0, 1],
\* and a correct answer has score 1.
C15_ScoreInRange ==
  \A i \in ScoredTasks :
    /\ InUnitInterval(settledWith[i].score)
    /\ settledWith[i].correct => settledWith[i].score = One

\* C16: for a list question, the score is the number of matched positions
\* divided by the number of expected items (the quotient of the code's
\* division, 0/0 included); correct iff all expected positions matched and
\* the response has as many items as expected; a response without a
\* non-empty item gives {correct: false, score: 0}.
C16_ListScore ==
  \A i \in ScoredLists :
    LET matched == Cardinality(MatchedPositions(i))
        r == settledWith[i]
    IN IF ResponseItemsOf(i) = <<>>
       THEN ~r.correct /\ r.score = Zero
       ELSE /\ r.score = Frac(matched, Len(ExpectedItemsOf(i)))
            /\ r.correct <=> (/\ matched = Len(ExpectedItemsOf(i))
                              /\ Len(ResponseItemsOf(i)) = Len(ExpectedItemsOf(i)))

\* expected ["a", "B"], answered "a\na": one of the two positions matches
C16_Witness ==
  /\ 0 \in ScoredLists
  /\ ExpectedItemsOf(0) = << <<"a">>, <<"B">> >>
  /\ tasks[0].ask.answer = <<"a", NL, "a">>
  /\ settledWith[0].score = Frac(1, 2)
  /\ ~settledWith[0].correct

\* C17 (as claimed): a response with more items than expected never has
\* score 1.
C17_NoFullScoreWithExtras ==
  \A i \in ScoredLists :
    Len(ResponseItemsOf(i)) > Len(ExpectedItemsOf(i)) => settledWith[i].score # One

\* C17 (amended): a response with more items than expected is never correct;
\* its score is 1 exactly when every expected position matches and there is
\* at least one expected item.
C17_ExtrasNeverCorrect ==
  \A i \in ScoredLists :
    Len(ResponseItemsOf(i)) > Len(ExpectedItemsOf(i)) =>
      /\ ~settledWith[i].correct
      /\ settledWith[i].score = One <=>
           (/\ Len(ExpectedItemsOf(i)) > 0
            /\ Cardinality(MatchedPositions(i)) = Len(ExpectedItemsOf(i)))

\* expected ["a"], answered "a\nB": score 1, not correct
C17_Witness ==
  /\ 0 \in ScoredLists
  /\ ExpectedItemsOf(0) = << <<"a">> >>
  /\ tasks[0].ask.answer = <<"a", NL, "B">>
  /\ settledWith[0].score = One
  /\ ~settledWith[0].correct

\* ------------------------------------------------------------------------
\* Properties (invalid inputs)
\* ------------------------------------------------------------------------

\* C18 (as claimed): with a limit <= 0 and at least one item,
\* runWithConcurrency fails with an error; its promise never resolves with a
\* result array.
C18_InvalidLimitRejected ==
  (concurrency <= 0 /\ N > 0 /\ pc # "init") =>
    /\ promiseAll # "resolved"
    /\ runError \in {"RangeError", "InvalidLimit"}

\* C19 (as claimed): a run on a malformed question set is rejected before any
\* request is dispatched: once started it has thrown, and no unit function
\* was invoked.
C19_MalformedRejectedAtFlatten ==
  (Malformed(questionFiles) /\ pc # "init") =>
    /\ pc = "threw"
    /\ \A i \in Indices : fnCalls[i] = 0 /\ tasks[i].fetch = "none"

\* ------------------------------------------------------------------------
\* Properties (batch of models)
\* ------------------------------------------------------------------------
\* the models selected to run
Selected == {modelsToRun[k] : k \in 1..Len(modelsToRun)}

\* C20: in both modes runBenchmarkForModel is invoked at most once per model
\* and only for selected models; an error of a run never ends the batch (only
\* the cache check, before any run, can); while the batch is not finished
\* some selected model is in progress; when it finishes every selected model
\* was invoked exactly once and is in completed, and running is empty.
C20_BatchSurvivesErrors ==
  /\ \A m \in DOMAIN invoked :
       /\ invoked[m] <= 1
       /\ invoked[m] = 1 => m \in Selected
       /\ runModelPc[m] = "done" => m \in completed /\ m \notin running
  /\ batchPc = "threw" => \A m \in DOMAIN invoked : invoked[m] = 0
  /\ batchPc = "running" =>
       \E m \in Selected : runModelPc[m] \in {"awaitRun", "awaitSave"}
  /\ batchPc = "done" =>
       /\ \A m \in Selected : invoked[m] = 1 /\ m \in completed
       /\ running = {}

\* a sequential batch of three models whose first run threw
C20_Witness ==
  /\ batchPc = "done"
  /\ ~parallel
  /\ modelsToRun = <<1, 2, 3>>
  /\ 1 \in threwFor
  /\ batchResults[2] = "fresh"
  /\ invoked[3] = 1

\* C21: skip-if-cached is decided before the core is invoked. Without force,
\* runBenchmarkForModel is never called for a model whose stored result
\* exists and loads, and that stored result is the one used; with force it is
\* called for every requested model, whatever the results directory holds.
C21_SkipIfCached ==
  /\ [](\A m \in DOMAIN invoked :
          /\ batchResults[m] = "cached" => ~force /\ stored[m] = "valid" /\ invoked[m] = 0
          /\ (~force /\ stored[m] = "valid" /\ invoked[m] = 0
                /\ batchPc \notin {"idle", "idleSingle", "threw"})
               => batchResults[m] = "cached"
          /\ force => /\ batchPc \notin {"allCached", "threw"}
                      /\ skipped = {}
                      /\ batchPc = "running" => modelsToRun = models
                      /\ batchPc \in {"singleRunning", "singleDone", "done"}
                           => invoked[m] = 1 \/ (~parallel /\ batchPc = "running")
                      /\ batchPc \in {"done", "singleDone"} => invoked[m] = 1)
  /\ [][\A m \in DOMAIN invoked :
          invoked'[m] # invoked[m] => force \/ stored[m] # "valid"]_vars

\* a batch without force has finished: one model used its stored result and
\* was never run, another was run and its result stored
C21_Witness ==
  /\ batchPc = "done" /\ ~force
  /\ \E m \in DOMAIN invoked : batchResults[m] = "cached" /\ invoked[m] = 0
  /\ \E m \in DOMAIN invoked : batchResults[m] = "fresh" /\ invoked[m] = 1

\* C22: with a valid limit, if every unit settles (every request is bounded
\* by its timer) and none throws, runWithConcurrency completes: the cursor
\* reaches items.length, every worker returns and the call resolves.
C22_RunCompletes ==
  concurrency >= 1 =>
    <>(\/ \E i \in Indices : tasks[i].unit = "threw"
       \/ /\ pc # "init"
          /\ currentIndex = N
          /\ \A w \in 1..Len(workers) : workers[w].st = "done"
          /\ promiseAll = "resolved")

\* three items under limit 2 have all settled, one of them by its timer, and
\* the call has resolved
C22_Witness ==
  /\ N = 3 /\ concurrency = 2
  /\ currentIndex = N /\ promiseAll = "resolved"
  /\ \A w \in 1..Len(workers) : workers[w].st = "done"
  /\ \E i \in Indices : TimedOutTask(i)

\* C23 (as claimed): in every BenchmarkResult, overallScore and every
\* section's averageScore lie in [0, 1]; a section without outcomes has
\* averageScore 0 and a run without questions has overallScore 0.
C23_AggregatesInRange ==
  pc = "returned" =>
    /\ InUnitInterval(benchmarkResult.overallScore)
    /\ N = 0 => benchmarkResult.overallScore = Zero
    /\ \A s \in 1..Len(benchmarkResult.sections) :
         LET section == benchmarkResult.sections[s] IN
         /\ InUnitInterval(section.averageScore)
         /\ section.results = <<>> => section.averageScore = Zero

\* C24: every request askQuestion builds carries at most one reasoning
\* shape, never both reasoning.max_tokens and reasoning.effort; with a token
\* budget B, max_tokens = B + 4096; with an effort level, max_tokens = 16384;
\* for a model with neither setting, no reasoning and no max_tokens are set;
\* no entry of the MODELS registry sets both reasoningBudget and
\* reasoningEffort.
C24_OneReasoningShape ==
  /\ \A i \in Indices :
       "request" \in DOMAIN tasks[i] =>
         LET r == tasks[i].request IN
         /\ "reasoning" \in DOMAIN r =>
              /\ DOMAIN r.reasoning \in {{"max_tokens"}, {"effort"}}
              /\ "max_tokens" \in DOMAIN r.reasoning =>
                   r.max_tokens = r.reasoning.max_tokens + 4096
              /\ "effort" \in DOMAIN r.reasoning => r.max_tokens = 16384
         /\ {"reasoningBudget", "reasoningEffort"} \cap DOMAIN model = {} =>
              {"reasoning", "max_tokens"} \cap DOMAIN r = {}
  /\ \A k \in DOMAIN MODELS :
       ~({"reasoningBudget", "reasoningEffort"} \subseteq DOMAIN MODELS[k])

\* a request was built for a model with both settings: it carries the effort
\* and max_tokens 16384
C24_Witness ==
  /\ {"reasoningBudget", "reasoningEffort"} \subseteq DOMAIN model
  /\ model.reasoningBudget = 16000
  /\ \E i \in Indices :
       /\ "request" \in DOMAIN tasks[i]
       /\ DOMAIN tasks[i].request = {"temperature", "reasoning", "max_tokens"}
       /\ tasks[i].request.reasoning = [effort |-> model.reasoningEffort]
       /\ tasks[i].request.max_tokens = 16384

\* C25: for a limit >= 1, while no unit has thrown and an unclaimed index
\* remains, exactly min(limit, items.length) units are active, one per
\* worker; a worker whose unit resolves while an index is unclaimed claims
\* that index and starts its unit in the same step, whatever the units of the
\* other workers do.
C25_NoStarvation ==
  /\ []((/\ concurrency >= 1
         /\ pc # "init"
         /\ \A i \in Indices : tasks[i].unit # "threw"
         /\ currentIndex < N)
        => /\ Cardinality(ActiveUnits) = Min(concurrency, N)
           /\ \A w \in 1..Len(workers) :
                /\ workers[w].st = "awaiting"
                /\ tasks[workers[w].index].unit = "running")
  /\ [][\A i \in DOMAIN tasks :
          (/\ concurrency >= 1
           /\ tasks[i].unit = "running"
           /\ tasks'[i].unit = "resolved"
           /\ currentIndex < N)
          => /\ currentIndex' = currentIndex + 1
             /\ tasks'[currentIndex].unit = "running"
             /\ claimedBy'[currentIndex] = writtenBy'[i]
             /\ \A j \in DOMAIN tasks \ {i, currentIndex} : tasks'[j].unit = tasks[j].unit]_vars

\* under limit 2 the worker of item 0 has finished and taken item 2 while
\* item 1 is still in flight
C25_Witness ==
  /\ N = 3 /\ concurrency = 2
  /\ tasks[0].unit = "resolved"
  /\ tasks[1].unit = "running"
  /\ tasks[2].unit = "running"
  /\ claimedBy[2] = writtenBy[0]
  /\ claimedBy[2] # claimedBy[1]

\* C26 (as claimed): once a task of the run has failed with a fatal error, no
\* further index is claimed, no further request is dispatched and no further
\* progress event is emitted.
C26_FatalIsTerminal ==
  [][(\E i \in DOMAIN tasks : tasks[i].unit = "threw")
       => /\ currentIndex' = currentIndex
          /\ \A j \in DOMAIN tasks : tasks[j].fetch = "none" => tasks'[j].fetch = "none"
          /\ progress' = <<>>]_vars

\* C27 (as claimed): the abort signal of a call is raised only if its timer
\* fires before the underlying call has settled; when the underlying call
\* settles first, abort is never invoked for that call.
C27_AbortOnlyOnTimeout ==
  \A i \in Indices : tasks[i].aborted => TimedOutTask(i)

\* C28: once the timer has won the race of a call, nothing the underlying
\* call does later changes the outcome of the task: askQuestion has returned
\* {timedOut: true}, the unit has resolved with timedOut = true, score 0 and
\* correct = false, a late reply or a late rejection changes neither of them,
\* and it does not make the run fail.
C28_LateReplyDiscarded ==
  /\ [](\A i \in Indices :
          TimedOutTask(i) =>
            /\ tasks[i].ask = [st |-> "returned", answer |-> <<>>, timedOut |-> TRUE]
            /\ tasks[i].unit = "resolved"
            /\ settledWith[i].timedOut
            /\ settledWith[i].score = Zero
            /\ ~settledWith[i].correct
            /\ settledWith[i].modelResponse = TIMEOUT
            /\ results[i] \in {Empty, settledWith[i]})
  /\ [][\A i \in DOMAIN tasks :
          (TimedOutTask(i) /\ tasks'[i].fetch # tasks[i].fetch)
          => /\ tasks'[i].ask = tasks[i].ask
             /\ settledWith' = settledWith
             /\ results' = results
             /\ pc' = pc
             /\ runError' = runError
             /\ benchmarkResult' = benchmarkResult]_vars

\* the run has returned although the call of a timed-out task was rejected
\* after the timer had fired
C28_Witness ==
  /\ pc = "returned"
  /\ \E i \in Indices :
       /\ TimedOutTask(i)
       /\ tasks[i].fetch = "rejected"
       /\ tasks[i].aborted
       /\ OutcomeAt(<<1, i + 1>>).timedOut

\* C29: every ProgressInfo has 0 <= questionsInFlight <= min(concurrency,
\* number of tasks), 0 <= completedQuestionsOverall <= totalQuestionsOverall
\* and questionsInFlight + completedQuestionsOverall <= totalQuestionsOverall;
\* completedQuestionsOverall never decreases; the k-th `scored` event of the
\* run carries completedQuestionsOverall = k; in a run without fatal error
\* the last `scored` event carries completedQuestionsOverall = N and
\* questionsInFlight = 0.
C29_ProgressCounters ==
  /\ [](/\ \A k \in 1..Len(progress) :
             LET info == progress[k] IN
             /\ info.totalQuestionsOverall = N
             /\ 0 <= info.questionsInFlight
             /\ info.questionsInFlight <= Min(concurrency, N)
             /\ 0 <= info.completedQuestionsOverall
             /\ info.completedQuestionsOverall <= N
             /\ info.questionsInFlight + info.completedQuestionsOverall <= N
             /\ info.status = "scored" =>
                  /\ info.completedQuestionsOverall =
                       Cardinality({i \in Indices : reported[i].scored = 1})
                  /\ \A j \in 1..Len(progress) : progress[j].status = "scored" => j = k
                  /\ (info.completedQuestionsOverall = N
                        /\ \A i \in Indices : tasks[i].unit # "threw")
                       => info.questionsInFlight = 0
        /\ \A i \in Indices : reported[i].scored <= 1
        /\ pc = "returned" =>
             /\ completedQuestionsOverall = N
             /\ questionsInFlight = 0
             /\ \A i \in Indices : reported[i].scored = 1)
  /\ [][/\ completedQuestionsOverall' >= completedQuestionsOverall
        /\ \A k \in 1..Len(progress') :
             /\ progress'[k].completedQuestionsOverall >= completedQuestionsOverall
             /\ progress'[k].status = "scored" =>
                  progress'[k].completedQuestionsOverall = completedQuestionsOverall + 1]_vars

\* the last unit of a run of three under limit 2 reports: three completed,
\* none in flight
C29_Witness ==
  /\ N = 3 /\ concurrency = 2
  /\ pc = "returned"
  /\ Len(progress) = 1
  /\ progress[1].status = "scored"
  /\ progress[1].completedQuestionsOverall = 3
  /\ progress[1].questionsInFlight = 0

\* C30: the tasks are flattened file by file in load order and, within a
\* file, in listed question order; for a limit >= 1 they are claimed, reported
\* `running` and dispatched in exactly that order: the started tasks are the
\* indices below the cursor, and the `running` reports of one turn are in
\* increasing index order, each after those of all smaller indices.
C30_DispatchInFlattenOrder ==
  pc # "init" =>
    /\ N = CountQuestions(questionFiles)
    /\ \A s \in 1..Len(questionFiles) :
         \A k \in 1..Len(questionFiles[s].questions) :
           /\ flattenedQuestions[TaskOf(s, k) + 1].question = questionFiles[s].questions[k]
           /\ flattenedQuestions[TaskOf(s, k) + 1].sectionIndex = s - 1
    /\ concurrency >= 1 =>
         /\ \A i \in Indices :
              /\ claimedBy[i] # <<>> <=> i < currentIndex
              /\ reported[i].running = 1 <=> i < currentIndex
              /\ tasks[i].fetch # "none" <=> i < currentIndex
         /\ \A k \in EventsOf("running") :
              /\ \A i \in 0..(progress[k].task - 1) : reported[i].running = 1
              /\ \A j \in EventsOf("running") :
                   j < k => progress[j].task < progress[k].task

\* two section files, three tasks, limit 2: task 1 has completed before task
\* 0, and task 2, of the second file, was started after both
C30_Witness ==
  /\ Len(questionFiles) = 2
  /\ N = 3 /\ concurrency = 2
  /\ flattenedQuestions[3].sectionIndex = 1
  /\ tasks[1].unit = "resolved"
  /\ tasks[0].unit = "running"
  /\ currentIndex = 3
  /\ tasks[2].fetch = "inflight"

====
